---------------------------- MODULE Spec2Model ----------------------------
(* Block play of packages/block/play.go: PlaySafe, ProcessTxs,             *)
(* serialExecuteTxs and the two account groupers, as a state machine.      *)
(* A transaction is named by its index in b.Transactions; its hash, its    *)
(* raw bytes and its writes to the database are all identified with that   *)
(* index.  What Play does is the environment's choice, recorded in played. *)
EXTENDS Integers, Sequences, FiniteSets, TLC

(***************************************************************************)
(* Bounds of the model.                                                    *)
(***************************************************************************)
\* longest block of any transactions
MaxTxs == 2
\* longest block of like transactions (one kind, one sender, one receiver)
MaxLikeTxs == 3
\* collaborator failures (database, parser, AfterPlayTxs, ...) per block play
MaxFaults == 1
\* longest block of the specification without collaborator failures
MaxWideTxs == 3
\* longest input list of the grouper specification
MaxGroupTxs == 3
\* account ids of the grouper specification are 0..MaxAcct
MaxAcct == 2

\* utxoGroupSerial and transferSelfGroupSerial are uint16
SerialModulus == 65536

VARIABLES
    Transactions,             \* b.Transactions: sequence of [kind, key, to]
    GenBlock,                 \* b.GenBlock
    IsGenesis,                \* b.IsGenesis()
    SqlDml,                   \* conf.Config.BlockSyncMethod.Method = SQLDML
    SysUpdate,                \* b.SysUpdate
    utxoTxsGroupMap, utxoGroupTxsList, utxoGroupSerial,
    transferSelfTxsGroupMap, transferSelfGroupTxsList, transferSelfGroupSerial,
    lock,                     \* holder of the package-level mutex, or "free"
    pc,                       \* position of the PlaySafe/ProcessTxs thread
    txsMap,                   \* ProcessTxs: kind -> parsed transactions
    tasks,                    \* invocations of serialExecuteTxs, by group key
    afters,                   \* ProcessTxs: afters
    processedTx,              \* ProcessTxs: processedTx
    genBErr,                  \* ProcessTxs: genBErr
    err,                      \* ProcessTxs: the named result err
    AfterTxs,                 \* b.AfterTxs
    TxFullData,               \* b.TxFullData
    Notifications,            \* b.Notifications
    OutputsMap,               \* b.OutputsMap
    dbState,                  \* outer DB transaction: none/open/committed/rolledback/failed
    dbWrites,                 \* transactions whose writes the outer transaction holds
    visible,                  \* transactions whose writes are committed
    played,                   \* transaction -> outcome of its execution, or "none"
    markedBad,                \* transaction -> number of MarkTransactionBad calls
    banned,                   \* key id -> number of BadTxForBan calls
    paused,                   \* node.PauseNodeActivity was called
    sent,                     \* notification queues on which Send was called
    calls,                    \* number of calls of the external block operations
    result,                   \* what PlaySafe returned, "running" before
    faults,                   \* collaborator failures so far
    budget,                   \* collaborator failures this play may meet
    run,                      \* 1, or 2 when the same block is played again
    first                     \* results of the first play, once it is replayed

vars == <<Transactions, GenBlock, IsGenesis, SqlDml, SysUpdate,
          utxoTxsGroupMap, utxoGroupTxsList, utxoGroupSerial,
          transferSelfTxsGroupMap, transferSelfGroupTxsList, transferSelfGroupSerial,
          lock, pc, txsMap, tasks, afters, processedTx, genBErr, err,
          AfterTxs, TxFullData, Notifications, OutputsMap,
          dbState, dbWrites, visible, played, markedBad, banned, paused, sent,
          calls, result, faults, budget, run, first>>

(***************************************************************************)
(* Transactions and small helpers.                                         *)
(***************************************************************************)
Kinds == {"StopNetwork", "FirstBlock", "Delay", "TransferSelf", "Utxo", "SmartContract"}

TxIds == 1..Len(Transactions)
KeyID(t) == Transactions[t].key
ToID(t) == Transactions[t].to
KindOf(t) == Transactions[t].kind

\* t.IsSmartContract()
IsSmartContract(t) == KindOf(t) = "SmartContract"

Range(s) == {s[i] : i \in 1..Len(s)}

RECURSIVE SelectKind(_, _)
\* the transactions of one kind, in block order
SelectKind(k, n) ==
    IF n = 0 THEN <<>>
    ELSE IF KindOf(n) = k THEN Append(SelectKind(k, n - 1), n)
         ELSE SelectKind(k, n - 1)

RemoveAt(s, j) == SubSeq(s, 1, j - 1) \o SubSeq(s, j + 1, Len(s))

EmptyMap == [k \in {} |-> <<>>]
MapPut(m, k, v) == [x \in (DOMAIN m) \cup {k} |-> IF x = k THEN v ELSE m[x]]

Digits == <<"0", "1", "2", "3", "4", "5", "6", "7", "8", "9">>
RECURSIVE Itoa(_)
\* strconv.Itoa of a non-negative number
Itoa(n) == IF n < 10 THEN Digits[n + 1] ELSE Itoa(n \div 10) \o Digits[(n % 10) + 1]

(***************************************************************************)
(* The groupers.  walletAddress is a Go map: reading a missing key gives   *)
(* 0, and an account is taken to be in the map when its value is not 0.    *)
(***************************************************************************)
WalletGet(w, a) == IF a \in DOMAIN w THEN w[a] ELSE 0
WalletPut(w, a) == [x \in (DOMAIN w) \cup {a} |-> IF x = a THEN a ELSE w[x]]

\* the accounts a transaction is grouped by
UtxoAccounts(t) == {KeyID(t), ToID(t)}
TransferSelfAccounts(t) == {KeyID(t)}

UtxoHit(w, t) == WalletGet(w, KeyID(t)) # 0 \/ WalletGet(w, ToID(t)) # 0
UtxoAdd(w, t) == WalletPut(WalletPut(w, KeyID(t)), ToID(t))
TransferSelfHit(w, t) == WalletGet(w, KeyID(t)) # 0
TransferSelfAdd(w, t) == WalletPut(w, KeyID(t))

\* fault: the transaction is put in front of the group's list
AddToGroupFront(list, t) == <<t>> \o list
\* utxoGroupTxsList = append(utxoGroupTxsList, txs[i])
AddToGroup(list, t) == Append(list, t)

RECURSIVE SweepUtxo(_, _, _, _)
\* the for loop of groupUtxoTxs from position j (1-based) on
SweepUtxo(txs, j, w, list) ==
    IF j > Len(txs) THEN [txs |-> txs, wallet |-> w, list |-> list]
    ELSE IF DOMAIN w = {}
         THEN SweepUtxo(Tail(txs), j, UtxoAdd(w, txs[j]), AddToGroup(list, txs[j]))
         ELSE IF UtxoHit(w, txs[j])
              THEN SweepUtxo(RemoveAt(txs, j), j, UtxoAdd(w, txs[j]), AddToGroup(list, txs[j]))
              ELSE SweepUtxo(txs, j + 1, w, list)

RECURSIVE groupUtxoTxs(_, _, _)
\* g is the package state [map, list, serial]; the result is that state
\* when the outermost call returns
groupUtxoTxs(txs, w, g) ==
    IF Len(txs) = 0 THEN g
    ELSE LET s == SweepUtxo(txs, 1, w, g.list)
         IN IF Len(g.list) < Len(s.list)
            THEN IF Len(s.txs) = 0
                 THEN [g EXCEPT !.map = MapPut(g.map, Itoa(g.serial), s.list),
                                !.list = s.list]
                 ELSE groupUtxoTxs(s.txs, s.wallet, [g EXCEPT !.list = s.list])
            ELSE IF Len(s.list) > 0
                 THEN groupUtxoTxs(s.txs, EmptyMap,
                                   [map |-> MapPut(g.map, Itoa(g.serial), s.list),
                                    list |-> <<>>,
                                    serial |-> (g.serial + 1) % SerialModulus])
                 ELSE groupUtxoTxs(s.txs, s.wallet, [g EXCEPT !.list = s.list])

RECURSIVE SweepTransferSelf(_, _, _, _)
\* the for loop of groupTransferSelfTxs from position j (1-based) on
SweepTransferSelf(txs, j, w, list) ==
    IF j > Len(txs) THEN [txs |-> txs, wallet |-> w, list |-> list]
    ELSE IF DOMAIN w = {}
         THEN SweepTransferSelf(Tail(txs), j, TransferSelfAdd(w, txs[j]),
                                AddToGroup(list, txs[j]))
         ELSE IF TransferSelfHit(w, txs[j])
              THEN SweepTransferSelf(RemoveAt(txs, j), j, TransferSelfAdd(w, txs[j]),
                                     AddToGroup(list, txs[j]))
              ELSE SweepTransferSelf(txs, j + 1, w, list)

RECURSIVE groupTransferSelfTxs(_, _, _)
groupTransferSelfTxs(txs, w, g) ==
    IF Len(txs) = 0 THEN g
    ELSE LET s == SweepTransferSelf(txs, 1, w, g.list)
         IN IF Len(g.list) < Len(s.list)
            THEN IF Len(s.txs) = 0
                 THEN [g EXCEPT !.map = MapPut(g.map, Itoa(g.serial), s.list),
                                !.list = s.list]
                 ELSE groupTransferSelfTxs(s.txs, s.wallet, [g EXCEPT !.list = s.list])
            ELSE IF Len(s.list) > 0
                 THEN groupTransferSelfTxs(s.txs, EmptyMap,
                                           [map |-> MapPut(g.map, Itoa(g.serial), s.list),
                                            list |-> <<>>,
                                            serial |-> (g.serial + 1) % SerialModulus])
                 ELSE groupTransferSelfTxs(s.txs, s.wallet, [g EXCEPT !.list = s.list])



(***************************************************************************)
(* Errors are named by their message; fmt.Errorf("%v; %w", a, b) joins two. *)
(***************************************************************************)
Compose(a, b) == a \o "; " \o b

\* the outcomes of one iteration of serialExecuteTxs that a collaborator's
\* failure causes: Savepoint, WithOption, RollbackSavepoint, syspar.SysUpdate
FaultOutcomes == {"savepointErr", "optionErr", "rollbackErr", "sysparErr"}
\* Play returned nil: without notifications, with some
OkOutcomes == {"ok", "okNotify"}
\* Play returned an error other than ErrNetworkStopping and the rollback to
\* the savepoint succeeded
FailOutcomes == {"fail", "vmTime", "limit"}

\* ErrNetworkStopping is what playing a stop-network transaction reports
Outcomes(t) ==
    OkOutcomes \cup FailOutcomes \cup FaultOutcomes
        \cup (IF KindOf(t) = "StopNetwork" THEN {"netStop"} ELSE {})

\* the error Play returned
PlayError(o) ==
    CASE o = "limit" -> "ErrLimitStop"
      [] o = "vmTime" -> "tx error: ErrVMTimeLimit"
      [] o = "netStop" -> "ErrNetworkStopping"
      [] OTHER -> "tx error"

NoAfters == [Txs |-> <<>>, Rts |-> <<>>, TxBinLogSql |-> <<>>]
NoCalls == [insert |-> 0, commit |-> 0, rollback |-> 0, afterPlay |-> 0]
NoFirst == [AfterTxs |-> NoAfters, TxFullData |-> <<>>, visible |-> {}, played |-> <<>>]

NewTask(txs) == [txs |-> txs, cur |-> 1, st |-> "waiting", ret |-> "nil", genBErr |-> "nil"]

(***************************************************************************)
(* Initial states: a block and the mode it is played in.                   *)
(***************************************************************************)
\* the senders and receivers of a block: two accounts, so that transactions
\* share one or do not
Keys == {1, 2}

\* The key id matters to the play only for the grouped kinds and for the ban
\* of a smart contract's sender; ToID only for UTXO transactions.
TxTemplates ==
    {[kind |-> "StopNetwork", key |-> 1, to |-> 1], [kind |-> "Delay", key |-> 1, to |-> 1]}
        \cup {[kind |-> k, key |-> a, to |-> a] : k \in {"TransferSelf", "SmartContract"}, a \in Keys}
        \cup {[kind |-> "Utxo", key |-> a, to |-> b] : a \in Keys, b \in Keys}

\* the phase of ProcessTxs that plays a kind
PhaseOf(k) ==
    CASE k = "StopNetwork" -> 1
      [] k = "FirstBlock" -> 2
      [] k = "Delay" -> 3
      [] k = "TransferSelf" -> 4
      [] OTHER -> 5

\* The blocks played: the kinds in the order of their phases (ProcessTxs reads
\* the block kind by kind, from b.ClassifyTxsMap), and the longer blocks made
\* of like transactions.
InPhaseOrder(txs) ==
    \A i \in 1..(Len(txs) - 1) : PhaseOf(txs[i].kind) <= PhaseOf(txs[i + 1].kind)

IsBlock(txs) ==
    /\ InPhaseOrder(txs)
    /\ Len(txs) <= MaxTxs \/ \A i \in 1..Len(txs) : txs[i] = txs[1]

GenesisTx == [kind |-> "FirstBlock", key |-> 1, to |-> 1]

\* everything but the block and the mode
InitRest ==
    /\ utxoTxsGroupMap = EmptyMap
    /\ utxoGroupTxsList = <<>>
    /\ utxoGroupSerial = 1
    /\ transferSelfTxsGroupMap = EmptyMap
    /\ transferSelfGroupTxsList = <<>>
    /\ transferSelfGroupSerial = 1
    /\ lock = "free"
    /\ txsMap = [k \in Kinds |-> <<>>]
    /\ tasks = EmptyMap
    /\ afters = NoAfters
    /\ processedTx = <<>>
    /\ genBErr = "nil"
    /\ err = "nil"
    /\ AfterTxs = NoAfters
    /\ TxFullData = IF GenBlock THEN <<>> ELSE [i \in 1..Len(Transactions) |-> i]
    /\ Notifications = <<>>
    /\ OutputsMap = <<>>
    /\ dbState = "none"
    /\ dbWrites = {}
    /\ visible = {}
    /\ played = [i \in 1..Len(Transactions) |-> "none"]
    /\ markedBad = [i \in 1..Len(Transactions) |-> 0]
    /\ banned = [a \in Keys |-> 0]
    /\ paused = FALSE
    /\ sent = <<>>
    /\ calls = NoCalls
    /\ result = "running"
    /\ faults = 0
    /\ run = 1
    /\ first = NoFirst

\* a block and its mode
InitBlock ==
    \E n \in 0..MaxLikeTxs :
        \/ /\ Transactions \in [1..n -> TxTemplates]
           /\ IsBlock(Transactions)
           /\ IsGenesis = FALSE
           /\ \/ GenBlock \in BOOLEAN /\ SqlDml = FALSE /\ SysUpdate = FALSE
              \/ GenBlock = FALSE /\ SqlDml = TRUE /\ SysUpdate \in BOOLEAN
        \/ /\ Transactions = [i \in 1..n |-> GenesisTx]
           /\ IsGenesis = TRUE
           /\ GenBlock = FALSE
           /\ SqlDml \in BOOLEAN
           /\ SysUpdate = FALSE

Init ==
    /\ pc = "start"
    /\ budget = MaxFaults
    /\ InitBlock
    /\ InitRest


(***************************************************************************)
(* PlaySafe up to the call of ProcessTxs, and ProcessTxs up to its phases. *)
(***************************************************************************)
\* a collaborator may fail now: a second play of a block meets no failure
CanFail == faults < budget /\ run = 1

\* PlaySafe returns e
Return(e) == pc' = "done" /\ result' = e

\* the variables no step of the main thread before the phases touches
UNCHANGED_Groups ==
    UNCHANGED <<utxoTxsGroupMap, utxoGroupTxsList, utxoGroupSerial,
                transferSelfTxsGroupMap, transferSelfGroupTxsList, transferSelfGroupSerial>>
UNCHANGED_Input == UNCHANGED <<Transactions, GenBlock, IsGenesis, SqlDml, budget, run, first>>
UNCHANGED_Locals == UNCHANGED <<afters, processedTx, genBErr>>
UNCHANGED_Block == UNCHANGED <<AfterTxs, TxFullData, Notifications>>
UNCHANGED_Db == UNCHANGED <<dbState, dbWrites, visible>>
UNCHANGED_Side == UNCHANGED <<markedBad, banned, paused, sent>>

\* sqldb.StartTransaction
StartTransaction ==
    /\ pc = "start"
    /\ \/ /\ dbState' = "open"
          /\ pc' = "classify"
          /\ UNCHANGED <<result, faults>>
       \/ /\ CanFail
          /\ faults' = faults + 1
          /\ Return("db error")
          /\ UNCHANGED dbState
    /\ UNCHANGED_Groups /\ UNCHANGED_Input /\ UNCHANGED_Locals /\ UNCHANGED_Block
    /\ UNCHANGED_Side
    /\ UNCHANGED <<SysUpdate, lock, txsMap, tasks, err, OutputsMap, dbWrites, visible,
                   played, calls>>

\* b.ClassifyTxsMap holds the raw transactions of every kind but FirstBlock
ClassifyTxsMap == [k \in Kinds |-> IF k = "FirstBlock" THEN <<>> ELSE SelectKind(k, Len(Transactions))]

RECURSIVE Without(_, _)
\* the sequence s without the members of the set bad
Without(s, bad) ==
    IF s = <<>> THEN <<>>
    ELSE IF Head(s) \in bad THEN Without(Tail(s), bad)
         ELSE <<Head(s)>> \o Without(Tail(s), bad)

\* ProcessTxs, the loop over b.ClassifyTxsMap: the transactions of unparsable
\* are dropped, those of withHash among them marked bad
Unmarshall(unparsable, withHash) ==
    /\ txsMap' = [k \in Kinds |-> Without(ClassifyTxsMap[k], unparsable)]
    /\ markedBad' = [t \in DOMAIN markedBad |->
                        markedBad[t] + IF t \in withHash THEN 1 ELSE 0]
    /\ faults' = faults + Cardinality(unparsable)

Classify ==
    /\ pc = "classify"
    /\ \E unparsable \in SUBSET {t \in TxIds : KindOf(t) # "FirstBlock"} :
          /\ unparsable # {} => CanFail
          /\ faults + Cardinality(unparsable) <= budget
          /\ \E withHash \in SUBSET unparsable : Unmarshall(unparsable, withHash)
    /\ pc' = "shortcut"
    /\ UNCHANGED_Groups /\ UNCHANGED_Input /\ UNCHANGED_Locals /\ UNCHANGED_Block
    /\ UNCHANGED_Db
    /\ UNCHANGED <<SysUpdate, lock, tasks, err, OutputsMap, played, banned, paused, sent,
                   calls, result>>

\* the validation short cut of ProcessTxs
IsShortcut == ~GenBlock /\ ~IsGenesis /\ SqlDml

Shortcut ==
    /\ pc = "shortcut"
    /\ \/ /\ IsShortcut
          /\ pc' = "defer"
          /\ \/ err' = "nil" /\ UNCHANGED faults
             \/ /\ SysUpdate
                /\ CanFail
                /\ faults' = faults + 1
                /\ err' = "updating syspar: error"
       \/ /\ ~IsShortcut
          /\ pc' = "preload"
          /\ UNCHANGED <<err, faults>>
    /\ UNCHANGED_Groups /\ UNCHANGED_Input /\ UNCHANGED_Locals /\ UNCHANGED_Block
    /\ UNCHANGED_Db /\ UNCHANGED_Side
    /\ UNCHANGED <<SysUpdate, lock, txsMap, tasks, OutputsMap, played, calls, result>>

\* sqldb.GetTxOutputs and PutAllOutputsMap: the map starts as the seed
Preload ==
    /\ pc = "preload"
    /\ \/ /\ OutputsMap' = <<>>
          /\ pc' = "StopNetwork"
          /\ UNCHANGED <<err, faults>>
       \/ /\ CanFail
          /\ faults' = faults + 1
          /\ err' = "db error"
          /\ pc' = "defer"
          /\ UNCHANGED OutputsMap
    /\ UNCHANGED_Groups /\ UNCHANGED_Input /\ UNCHANGED_Locals /\ UNCHANGED_Block
    /\ UNCHANGED_Db /\ UNCHANGED_Side
    /\ UNCHANGED <<SysUpdate, lock, txsMap, tasks, played, calls, result>>

(***************************************************************************)
(* The serial phases: the main thread calls serialExecuteTxs itself.       *)
(***************************************************************************)
SerialPhases == {"StopNetwork", "Delay"}
\* fault: the UTXO and smart-contract phase comes before the transfer-self phase
AfterPhaseSwapped(p) ==
    CASE p = "StopNetwork" -> "FirstBlock"
      [] p = "FirstBlock" -> "Delay"
      [] p = "Delay" -> "Utxo"
      [] p = "Utxo" -> "TransferSelf"
      [] OTHER -> "defer"

AfterPhase(p) ==
    CASE p = "StopNetwork" -> "FirstBlock"
      [] p = "FirstBlock" -> "Delay"
      [] p = "Delay" -> "TransferSelf"
      [] p = "TransferSelf" -> "Utxo"
      [] OTHER -> "defer"

\* the call of a serial phase, or the phase skipped
SerialCall(p) ==
    /\ pc = p
    /\ tasks = EmptyMap
    /\ IF Len(txsMap[p]) > 0
       THEN tasks' = MapPut(EmptyMap, "main", NewTask(txsMap[p])) /\ pc' = pc
       ELSE tasks' = tasks /\ pc' = AfterPhase(p)
    /\ UNCHANGED_Groups /\ UNCHANGED_Input /\ UNCHANGED_Locals /\ UNCHANGED_Block
    /\ UNCHANGED_Db /\ UNCHANGED_Side
    /\ UNCHANGED <<SysUpdate, lock, txsMap, err, OutputsMap, played, calls, result, faults>>

\* the phase of the first block: every transaction of the block is parsed
\* again and the whole block is executed; a parse failure ends ProcessTxs
FirstBlockCall ==
    /\ pc = "FirstBlock"
    /\ tasks = EmptyMap
    /\ \/ /\ ~IsGenesis
          /\ pc' = AfterPhase("FirstBlock")
          /\ UNCHANGED <<tasks, err, markedBad, faults>>
       \/ /\ IsGenesis
          /\ tasks' = MapPut(EmptyMap, "main", NewTask([i \in TxIds |-> i]))
          /\ UNCHANGED <<pc, err, markedBad, faults>>
       \/ /\ IsGenesis
          /\ CanFail
          /\ \E t \in TxIds : \E n \in {0, 1} :
                markedBad' = [markedBad EXCEPT ![t] = @ + n]
          /\ faults' = faults + 1
          /\ err' = "parse transaction error"
          /\ pc' = "defer"
          /\ UNCHANGED tasks
    /\ UNCHANGED_Groups /\ UNCHANGED_Input /\ UNCHANGED_Locals /\ UNCHANGED_Block
    /\ UNCHANGED_Db
    /\ UNCHANGED <<SysUpdate, lock, txsMap, OutputsMap, played, banned, paused, sent,
                   calls, result>>

\* fault: what serialExecuteTxs returned is not looked at
SerialReturnIgnored ==
    /\ pc \in SerialPhases \cup {"FirstBlock"}
    /\ "main" \in DOMAIN tasks
    /\ tasks["main"].st = "done"
    /\ tasks' = EmptyMap
    /\ txsMap' = IF pc = "FirstBlock" THEN txsMap ELSE [txsMap EXCEPT ![pc] = <<>>]
    /\ err' = err
    /\ pc' = AfterPhase(pc)
    /\ UNCHANGED_Groups /\ UNCHANGED_Input /\ UNCHANGED_Locals /\ UNCHANGED_Block
    /\ UNCHANGED_Db /\ UNCHANGED_Side
    /\ UNCHANGED <<SysUpdate, lock, OutputsMap, played, calls, result, faults>>

\* serialExecuteTxs returned to the main thread
SerialReturn ==
    /\ pc \in SerialPhases \cup {"FirstBlock"}
    /\ "main" \in DOMAIN tasks
    /\ tasks["main"].st = "done"
    /\ tasks' = EmptyMap
    /\ txsMap' = IF pc = "FirstBlock" THEN txsMap ELSE [txsMap EXCEPT ![pc] = <<>>]
    /\ IF tasks["main"].ret # "nil"
       THEN err' = tasks["main"].ret /\ pc' = "defer"
       ELSE err' = err /\ pc' = AfterPhase(pc)
    /\ UNCHANGED_Groups /\ UNCHANGED_Input /\ UNCHANGED_Locals /\ UNCHANGED_Block
    /\ UNCHANGED_Db /\ UNCHANGED_Side
    /\ UNCHANGED <<SysUpdate, lock, OutputsMap, played, calls, result, faults>>


(***************************************************************************)
(* The grouped phases: one goroutine per group, joined by wg.Wait.  What a *)
(* goroutine's serialExecuteTxs returns is read by nobody.                 *)
(***************************************************************************)
\* one goroutine for every entry of the group map
FanOut(map) == [g \in DOMAIN map |-> NewTask(map[g])]

TransferSelfFanOut ==
    /\ pc = "TransferSelf"
    /\ IF Len(txsMap["TransferSelf"]) > 0
       THEN LET g == groupTransferSelfTxs(txsMap["TransferSelf"], EmptyMap,
                        [map |-> transferSelfTxsGroupMap,
                         list |-> transferSelfGroupTxsList,
                         serial |-> transferSelfGroupSerial])
            IN /\ transferSelfTxsGroupMap' = g.map
               /\ transferSelfGroupTxsList' = g.list
               /\ transferSelfGroupSerial' = g.serial
               /\ tasks' = FanOut(g.map)
               /\ pc' = "TransferSelfWait"
       ELSE /\ pc' = AfterPhase("TransferSelf")
            /\ UNCHANGED <<transferSelfTxsGroupMap, transferSelfGroupTxsList,
                           transferSelfGroupSerial, tasks>>
    /\ UNCHANGED <<utxoTxsGroupMap, utxoGroupTxsList, utxoGroupSerial>>
    /\ UNCHANGED_Input /\ UNCHANGED_Locals /\ UNCHANGED_Block /\ UNCHANGED_Db
    /\ UNCHANGED_Side
    /\ UNCHANGED <<SysUpdate, lock, txsMap, err, OutputsMap, played, calls, result, faults>>

\* every goroutine of the phase has returned
Joined == \A g \in DOMAIN tasks : tasks[g].st = "done"

TransferSelfWait ==
    /\ pc = "TransferSelfWait"
    /\ Joined
    /\ transferSelfTxsGroupMap' = EmptyMap
    /\ transferSelfGroupTxsList' = <<>>
    /\ transferSelfGroupSerial' = 1
    /\ txsMap' = [txsMap EXCEPT !["TransferSelf"] = <<>>]
    /\ tasks' = EmptyMap
    /\ pc' = AfterPhase("TransferSelf")
    /\ UNCHANGED <<utxoTxsGroupMap, utxoGroupTxsList, utxoGroupSerial>>
    /\ UNCHANGED_Input /\ UNCHANGED_Locals /\ UNCHANGED_Block /\ UNCHANGED_Db
    /\ UNCHANGED_Side
    /\ UNCHANGED <<SysUpdate, lock, err, OutputsMap, played, calls, result, faults>>

\* the smart contracts are one more group of the UTXO group map, under "0"
WithSmartContracts(map, sc) == IF Len(sc) > 0 THEN MapPut(map, Itoa(0), sc) ELSE map

UtxoFanOut ==
    /\ pc = "Utxo"
    /\ IF Len(txsMap["Utxo"]) > 0 \/ Len(txsMap["SmartContract"]) > 0
       THEN LET g == groupUtxoTxs(txsMap["Utxo"], EmptyMap,
                        [map |-> utxoTxsGroupMap,
                         list |-> utxoGroupTxsList,
                         serial |-> utxoGroupSerial])
                m == WithSmartContracts(g.map, txsMap["SmartContract"])
            IN /\ utxoTxsGroupMap' = m
               /\ utxoGroupTxsList' = g.list
               /\ utxoGroupSerial' = g.serial
               /\ tasks' = FanOut(m)
               /\ pc' = "UtxoWait"
       ELSE /\ pc' = AfterPhase("Utxo")
            /\ UNCHANGED <<utxoTxsGroupMap, utxoGroupTxsList, utxoGroupSerial, tasks>>
    /\ UNCHANGED <<transferSelfTxsGroupMap, transferSelfGroupTxsList, transferSelfGroupSerial>>
    /\ UNCHANGED_Input /\ UNCHANGED_Locals /\ UNCHANGED_Block /\ UNCHANGED_Db
    /\ UNCHANGED_Side
    /\ UNCHANGED <<SysUpdate, lock, txsMap, err, OutputsMap, played, calls, result, faults>>

UtxoWait ==
    /\ pc = "UtxoWait"
    /\ Joined
    /\ utxoTxsGroupMap' = EmptyMap
    /\ utxoGroupTxsList' = <<>>
    /\ utxoGroupSerial' = 1
    /\ txsMap' = [txsMap EXCEPT !["Utxo"] = <<>>, !["SmartContract"] = <<>>]
    /\ tasks' = EmptyMap
    /\ pc' = AfterPhase("Utxo")
    /\ UNCHANGED <<transferSelfTxsGroupMap, transferSelfGroupTxsList, transferSelfGroupSerial>>
    /\ UNCHANGED_Input /\ UNCHANGED_Locals /\ UNCHANGED_Block /\ UNCHANGED_Db
    /\ UNCHANGED_Side
    /\ UNCHANGED <<SysUpdate, lock, err, OutputsMap, played, calls, result, faults>>

(***************************************************************************)
(* serialExecuteTxs.                                                       *)
(***************************************************************************)
\* _lock.Lock(); a call with no transactions returns nil at once
Lock(g) ==
    /\ g \in DOMAIN tasks
    /\ tasks[g].st = "waiting"
    /\ lock = "free"
    /\ IF Len(tasks[g].txs) = 0
       THEN tasks' = [tasks EXCEPT ![g].st = "done"] /\ lock' = lock
       ELSE tasks' = [tasks EXCEPT ![g].st = "running"] /\ lock' = g
    /\ UNCHANGED_Groups /\ UNCHANGED_Input /\ UNCHANGED_Locals /\ UNCHANGED_Block
    /\ UNCHANGED_Db /\ UNCHANGED_Side
    /\ UNCHANGED <<SysUpdate, pc, txsMap, err, OutputsMap, played, calls, result, faults>>

\* the writes of Play, and their removal by RollbackSavepoint
PlayWrites(w, t) == w \cup {t}
RollbackSavepoint(w, t) == w \ {t}

\* fault: a failed Play is not followed by the rollback to its savepoint
FailedPlayKeepsWrites(w, t) == PlayWrites(w, t)
\* what the outer transaction holds after Play failed and serialExecuteTxs
\* rolled back to the savepoint
FailedPlayWrites(w, t) == RollbackSavepoint(PlayWrites(w, t), t)

\* the loop goes on with the next transaction, or ends and nil is returned
Continue(T, e) ==
    IF T.cur = Len(T.txs)
    THEN [T EXCEPT !.cur = @ + 1, !.genBErr = e, !.st = "done", !.ret = "nil"]
    ELSE [T EXCEPT !.cur = @ + 1, !.genBErr = e]
\* break: nil is returned
Break(T) == [T EXCEPT !.st = "done", !.ret = "nil"]
\* return e
ReturnErr(T, e) == [T EXCEPT !.st = "done", !.ret = e]

\* fault: the lock is released only where nil is returned
UnlockOnNil(T) == IF T.st = "done" /\ T.ret = "nil" THEN "free" ELSE lock
\* the deferred _lock.Unlock()
Unlock(T) == IF T.st = "done" THEN "free" ELSE lock

\* in generation the VM's time limit error is replaced by ErrVMTimeLimit
Normalised(o) == IF GenBlock /\ o = "vmTime" THEN "ErrVMTimeLimit" ELSE PlayError(o)

\* a failed transaction after its rollback to the savepoint: generation stops
\* at a limit, at once if it is the group's first transaction
LimitReturns(T, o) == GenBlock /\ o = "limit" /\ T.cur = 1
\* fault: generation leaves the loop at any failed transaction but the first
AnyFailureBreaks(T, o) == GenBlock /\ T.cur # 1
LimitBreaks(T, o) == GenBlock /\ o = "limit" /\ T.cur # 1

\* what serialExecuteTxs does with its genBErr parameter: it sets its own copy
RecordGenBErr(e) == genBErr

\* sqldb.UpdateTxInputs and sqldb.InsertTxOutputs: the map with the inputs of
\* t marked spent and its outputs inserted, kept as the list of the
\* transactions applied to the seed
ApplyOutputs(m, t) == Append(m, t)

\* fault: the inputs and outputs of an accepted transaction are not applied
AcceptSkipsOutputs(t, o) ==
    /\ \E tSysUpdate \in BOOLEAN : SysUpdate' = (SysUpdate \/ tSysUpdate)
    /\ Notifications' = IF o = "okNotify" THEN Append(Notifications, t) ELSE Notifications
    /\ afters' = [Txs |-> Append(afters.Txs, t),
                  Rts |-> Append(afters.Rts, t),
                  TxBinLogSql |-> Append(afters.TxBinLogSql, t)]
    /\ processedTx' = Append(processedTx, t)
    /\ OutputsMap' = OutputsMap
    /\ dbWrites' = PlayWrites(dbWrites, t)

\* Play succeeded: the block's lists grow by the transaction
Accept(t, o) ==
    /\ \E tSysUpdate \in BOOLEAN : SysUpdate' = (SysUpdate \/ tSysUpdate)
    /\ Notifications' = IF o = "okNotify" THEN Append(Notifications, t) ELSE Notifications
    /\ afters' = [Txs |-> Append(afters.Txs, t),
                  Rts |-> Append(afters.Rts, t),
                  TxBinLogSql |-> Append(afters.TxBinLogSql, t)]
    /\ processedTx' = Append(processedTx, t)
    /\ OutputsMap' = ApplyOutputs(OutputsMap, t)
    /\ dbWrites' = PlayWrites(dbWrites, t)

\* fault: the notification queue of a failed transaction is kept
RejectKeepsNotifications ==
    /\ \E t \in TxIds : played[t] = "none" /\ Notifications' = Append(Notifications, t)
    /\ UNCHANGED <<SysUpdate, afters, processedTx, OutputsMap>>

\* Play failed: nothing of the block's lists changes
Reject == UNCHANGED <<SysUpdate, Notifications, afters, processedTx, OutputsMap>>

\* BadTxForBan for a smart contract, then MarkTransactionBad
BanAndMark(t) ==
    /\ banned' = IF IsSmartContract(t) THEN [banned EXCEPT ![KeyID(t)] = @ + 1] ELSE banned
    /\ markedBad' = [markedBad EXCEPT ![t] = @ + 1]

\* in a second play of the block every transaction does what it did before
Replayed(t, o) == IF run = 1 THEN TRUE ELSE first.played[t] \in {"none", o}

\* one iteration of the loop of serialExecuteTxs
ExecTx(g) ==
    /\ g \in DOMAIN tasks
    /\ tasks[g].st = "running"
    /\ LET T == tasks[g]
           t == T.txs[T.cur]
       IN \E o \in Outcomes(t) :
            /\ Replayed(t, o)
            /\ o \in FaultOutcomes => CanFail
            /\ faults' = faults + IF o \in FaultOutcomes THEN 1 ELSE 0
            /\ played' = [played EXCEPT ![t] = o]
            /\ \/ /\ o \in {"savepointErr", "optionErr"}
                  /\ tasks' = [tasks EXCEPT ![g] = ReturnErr(T, "db error")]
                  /\ Reject
                  /\ UNCHANGED <<dbWrites, banned, markedBad, paused, genBErr>>
               \/ /\ o = "netStop"
                  /\ paused' = TRUE
                  /\ dbWrites' = PlayWrites(dbWrites, t)
                  /\ tasks' = [tasks EXCEPT ![g] = ReturnErr(T, PlayError(o))]
                  /\ Reject
                  /\ UNCHANGED <<banned, markedBad, genBErr>>
               \/ /\ o = "rollbackErr"
                  /\ dbWrites' = PlayWrites(dbWrites, t)
                  /\ tasks' = [tasks EXCEPT ![g] = ReturnErr(T, Compose(PlayError(o), "db error"))]
                  /\ Reject
                  /\ UNCHANGED <<banned, markedBad, paused, genBErr>>
               \/ /\ o \in FailOutcomes \cup {"sysparErr"}
                  /\ dbWrites' = FailedPlayWrites(dbWrites, t)
                  /\ Reject
                  /\ UNCHANGED paused
                  /\ IF LimitReturns(T, o)
                     THEN /\ tasks' = [tasks EXCEPT ![g] = ReturnErr(T, PlayError(o))]
                          /\ UNCHANGED <<banned, markedBad, genBErr>>
                     ELSE IF LimitBreaks(T, o)
                     THEN /\ tasks' = [tasks EXCEPT ![g] = Break(T)]
                          /\ UNCHANGED <<banned, markedBad, genBErr>>
                     ELSE /\ BanAndMark(t)
                          /\ IF o = "sysparErr"
                             THEN /\ tasks' = [tasks EXCEPT ![g] =
                                                  ReturnErr(T, "updating syspar: error")]
                                  /\ UNCHANGED genBErr
                             ELSE IF GenBlock
                             THEN /\ tasks' = [tasks EXCEPT ![g] = Continue(T, Normalised(o))]
                                  /\ genBErr' = RecordGenBErr(Normalised(o))
                             ELSE /\ tasks' = [tasks EXCEPT ![g] = ReturnErr(T, Normalised(o))]
                                  /\ UNCHANGED genBErr
               \/ /\ o \in OkOutcomes
                  /\ Accept(t, o)
                  /\ tasks' = [tasks EXCEPT ![g] = Continue(T, T.genBErr)]
                  /\ UNCHANGED <<banned, markedBad, paused, genBErr>>
    /\ lock' = Unlock(tasks'[g])
    /\ UNCHANGED_Groups /\ UNCHANGED_Input
    /\ UNCHANGED <<dbState, visible>>
    /\ UNCHANGED <<pc, txsMap, err, AfterTxs, TxFullData, sent, calls, result>>


(***************************************************************************)
(* The deferred function of ProcessTxs, and the rest of PlaySafe.          *)
(***************************************************************************)
\* the result of ProcessTxs before AfterPlayTxs: genBErr replaces it if set
DeferredErr == IF genBErr # "nil" THEN genBErr ELSE err

\* fault: what AfterPlayTxs returns is not looked at
DeferredIgnoresAfterPlay ==
    /\ pc = "defer"
    /\ AfterTxs' = IF IsGenesis \/ GenBlock THEN afters ELSE AfterTxs
    /\ TxFullData' = IF GenBlock THEN processedTx ELSE TxFullData
    /\ calls' = [calls EXCEPT !.afterPlay = @ + 1]
    /\ err' = DeferredErr
    /\ \/ UNCHANGED faults
       \/ CanFail /\ faults' = faults + 1
    /\ pc' = "decide"
    /\ UNCHANGED_Groups /\ UNCHANGED_Input /\ UNCHANGED_Locals /\ UNCHANGED_Db
    /\ UNCHANGED_Side
    /\ UNCHANGED <<SysUpdate, lock, txsMap, tasks, Notifications, OutputsMap, played,
                   result>>

Deferred ==
    /\ pc = "defer"
    /\ AfterTxs' = IF IsGenesis \/ GenBlock THEN afters ELSE AfterTxs
    /\ TxFullData' = IF GenBlock THEN processedTx ELSE TxFullData
    /\ calls' = [calls EXCEPT !.afterPlay = @ + 1]
    /\ \/ err' = DeferredErr /\ UNCHANGED faults
       \/ /\ CanFail
          /\ faults' = faults + 1
          /\ err' = IF DeferredErr = "nil" THEN "AfterPlayTxs error"
                    ELSE Compose(DeferredErr, "AfterPlayTxs error")
    /\ pc' = "decide"
    /\ UNCHANGED_Groups /\ UNCHANGED_Input /\ UNCHANGED_Locals /\ UNCHANGED_Db
    /\ UNCHANGED_Side
    /\ UNCHANGED <<SysUpdate, lock, txsMap, tasks, Notifications, OutputsMap, played,
                   result>>

\* dbTx.Commit and dbTx.Rollback; c counts the calls made so far
Commit(c, ok) ==
    /\ calls' = [c EXCEPT !.commit = @ + 1]
    /\ dbState' = IF ok THEN "committed" ELSE "failed"
    /\ visible' = IF ok THEN dbWrites ELSE visible
    /\ UNCHANGED dbWrites

Rollback(c) ==
    /\ calls' = [c EXCEPT !.rollback = @ + 1]
    /\ dbState' = "rolledback"
    /\ dbWrites' = {}
    /\ UNCHANGED visible

RECURSIVE BanLoop(_, _, _)
\* the loop of PlaySafe over inputTx from index i on; failAt is the index at
\* which MarkTransactionBad fails, 0 for none; r is [banK, banned, markedBad, failed]
BanLoop(i, failAt, r) ==
    IF i > Len(Transactions) THEN r
    ELSE IF KeyID(i) \notin r.banK /\ IsSmartContract(i)
         THEN BanLoop(i + 1, failAt,
                      [r EXCEPT !.banK = @ \cup {KeyID(i)}, !.banned[KeyID(i)] = @ + 1])
         ELSE IF i = failAt
              THEN [r EXCEPT !.markedBad[i] = @ + 1, !.failed = TRUE]
              ELSE BanLoop(i + 1, failAt, [r EXCEPT !.markedBad[i] = @ + 1])

BanLoopFrom(failAt) ==
    BanLoop(1, failAt, [banK |-> {}, banned |-> banned, markedBad |-> markedBad,
                        failed |-> FALSE])

\* PlaySafe after ProcessTxs returned an error
PlayFailed ==
    /\ pc = "decide"
    /\ err # "nil"
    /\ Rollback(calls)
    /\ IF GenBlock /\ Len(TxFullData) = 0
       THEN \E failAt \in 0..Len(Transactions) :
               LET r == BanLoopFrom(failAt)
               IN /\ failAt # 0 => CanFail /\ r.failed
                  /\ faults' = faults + IF failAt # 0 THEN 1 ELSE 0
                  /\ banned' = r.banned
                  /\ markedBad' = r.markedBad
                  /\ Return(IF r.failed THEN "db error" ELSE err)
       ELSE /\ Return(err)
            /\ UNCHANGED <<banned, markedBad, faults>>
    /\ UNCHANGED_Groups /\ UNCHANGED_Input /\ UNCHANGED_Locals /\ UNCHANGED_Block
    /\ UNCHANGED <<SysUpdate, lock, txsMap, tasks, err, OutputsMap, played, paused, sent>>

\* fault: the empty generated block is inserted like any other
PlayEmptyInserts ==
    /\ pc = "decide"
    /\ err = "nil"
    /\ GenBlock /\ Len(TxFullData) = 0
    /\ Commit([calls EXCEPT !.insert = @ + 1], TRUE)
    /\ Return("nil")
    /\ UNCHANGED faults
    /\ UNCHANGED_Groups /\ UNCHANGED_Input /\ UNCHANGED_Locals /\ UNCHANGED_Block
    /\ UNCHANGED_Side
    /\ UNCHANGED <<SysUpdate, lock, txsMap, tasks, err, OutputsMap, played>>

\* generation accepted nothing: the commit's result is not looked at
PlayEmpty ==
    /\ pc = "decide"
    /\ err = "nil"
    /\ GenBlock /\ Len(TxFullData) = 0
    /\ \/ Commit(calls, TRUE) /\ UNCHANGED faults
       \/ CanFail /\ faults' = faults + 1 /\ Commit(calls, FALSE)
    /\ Return("ErrEmptyBlock")
    /\ UNCHANGED_Groups /\ UNCHANGED_Input /\ UNCHANGED_Locals /\ UNCHANGED_Block
    /\ UNCHANGED_Side
    /\ UNCHANGED <<SysUpdate, lock, txsMap, tasks, err, OutputsMap, played>>

\* fault: the notifications are sent whatever Commit returned
InsertsThenSends(failing) ==
    IF failing = "insert"
    THEN /\ Rollback([calls EXCEPT !.insert = @ + 1])
         /\ Return("insert error")
         /\ UNCHANGED sent
    ELSE /\ Commit([calls EXCEPT !.insert = @ + 1], failing # "commit")
         /\ sent' = sent \o Notifications
         /\ Return(IF failing = "commit" THEN "db error" ELSE "nil")

\* PlaySafe after ProcessTxs returned nil with something to insert:
\* InsertIntoBlockchain, Commit, and Send for every queue of b.Notifications.
\* failing names the call that fails, "none" for none.
Inserts(failing) ==
    IF failing = "insert"
    THEN /\ Rollback([calls EXCEPT !.insert = @ + 1])
         /\ Return("insert error")
         /\ UNCHANGED sent
    ELSE /\ Commit([calls EXCEPT !.insert = @ + 1], failing # "commit")
         /\ IF failing = "commit"
            THEN Return("db error") /\ UNCHANGED sent
            ELSE Return("nil") /\ sent' = sent \o Notifications

PlaySucceeded ==
    /\ pc = "decide"
    /\ err = "nil"
    /\ ~(GenBlock /\ Len(TxFullData) = 0)
    /\ \E failing \in {"none", "insert", "commit"} :
          /\ failing # "none" => CanFail
          /\ faults' = faults + IF failing # "none" THEN 1 ELSE 0
          /\ Inserts(failing)
    /\ UNCHANGED_Groups /\ UNCHANGED_Input /\ UNCHANGED_Locals /\ UNCHANGED_Block
    /\ UNCHANGED <<SysUpdate, lock, txsMap, tasks, err, OutputsMap, played, markedBad,
                   banned, paused>>

Next ==
    \/ StartTransaction
    \/ Classify
    \/ Shortcut
    \/ Preload
    \/ \E p \in SerialPhases : SerialCall(p)
    \/ FirstBlockCall
    \/ SerialReturn
    \/ TransferSelfFanOut
    \/ TransferSelfWait
    \/ UtxoFanOut
    \/ UtxoWait
    \/ \E g \in DOMAIN tasks : Lock(g)
    \/ \E g \in DOMAIN tasks : ExecTx(g)
    \/ Deferred
    \/ PlayFailed
    \/ PlayEmpty
    \/ PlaySucceeded

Spec == Init /\ [][Next]_vars


(***************************************************************************)
(* The same block played a second time from the same starting state, with  *)
(* every transaction doing what it did in the first play.                  *)
(***************************************************************************)
Replay ==
    /\ pc = "done"
    /\ run = 1
    /\ faults = 0
    /\ run' = 2
    /\ first' = [AfterTxs |-> AfterTxs, TxFullData |-> TxFullData, visible |-> visible,
                 played |-> played]
    /\ pc' = "start"
    /\ lock' = "free"
    /\ txsMap' = [k \in Kinds |-> <<>>]
    /\ tasks' = EmptyMap
    /\ afters' = NoAfters
    /\ processedTx' = <<>>
    /\ genBErr' = "nil"
    /\ err' = "nil"
    /\ AfterTxs' = NoAfters
    /\ TxFullData' = IF GenBlock THEN <<>> ELSE [i \in 1..Len(Transactions) |-> i]
    /\ Notifications' = <<>>
    /\ OutputsMap' = <<>>
    /\ dbState' = "none"
    /\ dbWrites' = {}
    /\ visible' = {}
    /\ played' = [i \in 1..Len(Transactions) |-> "none"]
    /\ markedBad' = [i \in 1..Len(Transactions) |-> 0]
    /\ banned' = [a \in Keys |-> 0]
    /\ paused' = FALSE
    /\ sent' = <<>>
    /\ calls' = NoCalls
    /\ result' = "running"
    /\ UNCHANGED_Groups
    /\ UNCHANGED <<Transactions, GenBlock, IsGenesis, SqlDml, SysUpdate, faults, budget>>

SpecReplay == Init /\ [][Next \/ Replay]_vars

(***************************************************************************)
(* Longer blocks of any kinds, played without collaborator failures.       *)
(***************************************************************************)
InitWide ==
    /\ pc = "start"
    /\ budget = 0
    /\ \E n \in 0..MaxWideTxs :
          /\ Transactions \in [1..n -> TxTemplates]
          /\ InPhaseOrder(Transactions)
    /\ IsGenesis = FALSE
    /\ GenBlock \in BOOLEAN
    /\ SqlDml = FALSE
    /\ SysUpdate = FALSE
    /\ InitRest

SpecWide == InitWide /\ [][Next]_vars

(***************************************************************************)
(* The groupers alone, on lists of transactions over the accounts          *)
(* 0..MaxAcct, from the reset package state.                               *)
(***************************************************************************)
Accounts == 0..MaxAcct

UtxoTemplates == {[kind |-> "Utxo", key |-> a, to |-> b] : a \in Accounts, b \in Accounts}
TransferSelfTemplates == {[kind |-> "TransferSelf", key |-> a, to |-> a] : a \in Accounts}

InitGroup ==
    /\ \E n \in 0..MaxGroupTxs :
          \/ Transactions \in [1..n -> UtxoTemplates] /\ pc = "groupUtxoTxs"
          \/ Transactions \in [1..n -> TransferSelfTemplates] /\ pc = "groupTransferSelfTxs"
    /\ budget = 0
    /\ IsGenesis = FALSE
    /\ GenBlock = FALSE
    /\ SqlDml = FALSE
    /\ SysUpdate = FALSE
    /\ InitRest

\* groupUtxoTxs(transactions, walletAddress) as ProcessTxs calls it
CallGroupUtxoTxs ==
    /\ pc = "groupUtxoTxs"
    /\ LET g == groupUtxoTxs([i \in TxIds |-> i], EmptyMap,
                    [map |-> utxoTxsGroupMap, list |-> utxoGroupTxsList,
                     serial |-> utxoGroupSerial])
       IN /\ utxoTxsGroupMap' = g.map
          /\ utxoGroupTxsList' = g.list
          /\ utxoGroupSerial' = g.serial
    /\ pc' = "grouped"
    /\ UNCHANGED <<transferSelfTxsGroupMap, transferSelfGroupTxsList, transferSelfGroupSerial>>
    /\ UNCHANGED_Input /\ UNCHANGED_Locals /\ UNCHANGED_Block /\ UNCHANGED_Db
    /\ UNCHANGED_Side
    /\ UNCHANGED <<SysUpdate, lock, txsMap, tasks, err, OutputsMap, played, calls, result,
                   faults>>

\* groupTransferSelfTxs(transactions, walletAddress) as ProcessTxs calls it
CallGroupTransferSelfTxs ==
    /\ pc = "groupTransferSelfTxs"
    /\ LET g == groupTransferSelfTxs([i \in TxIds |-> i], EmptyMap,
                    [map |-> transferSelfTxsGroupMap, list |-> transferSelfGroupTxsList,
                     serial |-> transferSelfGroupSerial])
       IN /\ transferSelfTxsGroupMap' = g.map
          /\ transferSelfGroupTxsList' = g.list
          /\ transferSelfGroupSerial' = g.serial
    /\ pc' = "grouped"
    /\ UNCHANGED <<utxoTxsGroupMap, utxoGroupTxsList, utxoGroupSerial>>
    /\ UNCHANGED_Input /\ UNCHANGED_Locals /\ UNCHANGED_Block /\ UNCHANGED_Db
    /\ UNCHANGED_Side
    /\ UNCHANGED <<SysUpdate, lock, txsMap, tasks, err, OutputsMap, played, calls, result,
                   faults>>

SpecGroup == InitGroup /\ [][CallGroupUtxoTxs \/ CallGroupTransferSelfTxs]_vars


(***************************************************************************)
(* Properties of the groupers (SpecGroup).                                 *)
(***************************************************************************)
\* the accounts of a group, acc giving those of a transaction
AccountsOf(list, acc(_)) == UNION {acc(t) : t \in Range(list)}

Disjoint(map, acc(_)) ==
    \A g, h \in DOMAIN map :
        g # h => AccountsOf(map[g], acc) \cap AccountsOf(map[h], acc) = {}

\* C5, group disjointness: when a grouper has returned, any two distinct
\* groups of its group map have disjoint account sets (sender and receiver
\* for groupUtxoTxs, sender for groupTransferSelfTxs).
C5_GroupDisjointness ==
    pc = "grouped" =>
        /\ Disjoint(utxoTxsGroupMap, UtxoAccounts)
        /\ Disjoint(transferSelfTxsGroupMap, TransferSelfAccounts)

\* a list of transactions in the order of the block
InBlockOrder(list) == \A i, j \in 1..Len(list) : i < j => list[i] < list[j]

\* C6, order preservation: when a grouper has returned, the transactions of
\* every group are in the relative order they have in the input list.  Stated
\* for the lists in which no account is 0, the account the map lookups of the
\* groupers cannot tell from a missing one.
C6_OrderPreservation ==
    (pc = "grouped" /\ \A t \in TxIds : 0 \notin UtxoAccounts(t)) =>
        /\ \A g \in DOMAIN utxoTxsGroupMap : InBlockOrder(utxoTxsGroupMap[g])
        /\ \A g \in DOMAIN transferSelfTxsGroupMap : InBlockOrder(transferSelfTxsGroupMap[g])

(***************************************************************************)
(* Two plays of one block (SpecReplay).                                    *)
(***************************************************************************)
\* C7, determinism: the second play of a block, from the same starting state
\* and with the same outcome of every transaction's Play, ends with the
\* AfterTxs, the TxFullData and the committed writes of the first play.
C7_Determinism ==
    (run = 2 /\ pc = "done") =>
        /\ AfterTxs = first.AfterTxs
        /\ TxFullData = first.TxFullData
        /\ visible = first.visible


(***************************************************************************)
(* Properties of PlaySafe (Spec).                                          *)
(***************************************************************************)
\* PlaySafe has returned and its outer DB transaction had been started
Returned == pc = "done" /\ dbState # "none"

\* the transactions whose Play returned nil, and those whose Play failed
Accepted == {t \in TxIds : played[t] \in OkOutcomes}
Failed == {t \in TxIds : played[t] \in FailOutcomes \cup {"netStop"}}

\* no RollbackSavepoint call of the play failed
SavepointsRolledBack == \A t \in TxIds : played[t] # "rollbackErr"

Validation == ~GenBlock /\ ~IsGenesis /\ ~SqlDml /\ faults = 0

\* C2, validation aborts: in validation, when Play fails for a transaction of
\* any kind, PlaySafe rolls back, returns an error, calls neither
\* InsertIntoBlockchain nor Commit, sends nothing, and the failing transaction
\* is marked bad exactly once.
C2_ValidationAborts ==
    (Returned /\ Validation /\ \E t \in TxIds : played[t] \in FailOutcomes) =>
        /\ dbState = "rolledback"
        /\ result # "nil"
        /\ calls.insert = 0
        /\ calls.commit = 0
        /\ sent = <<>>
        /\ \A t \in TxIds : played[t] \in FailOutcomes => markedBad[t] = 1

\* the smart contracts tx_ok, tx_bad, tx_ok2 of one sender, generated
ThreeContracts ==
    /\ GenBlock
    /\ faults = 0
    /\ Len(Transactions) = 3
    /\ \A t \in TxIds : IsSmartContract(t)
    /\ played[1] \in OkOutcomes
    /\ played[2] \in {"fail", "vmTime"}
    /\ played[3] \in OkOutcomes

\* C3, generation goes on: in generation a transaction whose Play fails with
\* an ordinary error does not end its group's loop, every transaction after
\* it in the group is played; and the play of the smart contracts
\* [tx_ok, tx_bad, tx_ok2] is committed with TxFullData and AfterTxs.Txs
\* holding tx_ok and tx_ok2 in that order, tx_bad marked bad and its sender
\* registered for banning.
C3_GenerationContinues ==
    /\ \A g \in DOMAIN tasks :
          (/\ GenBlock
           /\ tasks[g].st = "done"
           /\ \A i \in 1..Len(tasks[g].txs) :
                 played[tasks[g].txs[i]] \in OkOutcomes \cup {"fail", "vmTime", "none"})
          => \A i \in 1..Len(tasks[g].txs) : played[tasks[g].txs[i]] # "none"
    /\ (pc = "done" /\ ThreeContracts) =>
          /\ dbState = "committed"
          /\ result = "nil"
          /\ TxFullData = <<1, 3>>
          /\ AfterTxs.Txs = <<1, 3>>
          /\ markedBad = <<0, 1, 0>>
          /\ banned[KeyID(2)] = 1

C3_Witness == pc = "done" /\ ThreeContracts /\ dbState = "committed"

\* C4, notification gating: Send is called only after a Commit that
\* succeeded, so never on a path that rolls back, nor when
\* InsertIntoBlockchain or Commit fails, nor with ErrEmptyBlock.
C4_NotificationGating ==
    sent # <<>> =>
        /\ dbState = "committed"
        /\ calls.commit = 1
        /\ calls.rollback = 0
        /\ result = "nil"

C4_Witness == sent # <<>> /\ pc = "done"

\* C8, empty generation: when ProcessTxs returns nil in generation and
\* accepted nothing, PlaySafe calls Commit, returns ErrEmptyBlock, does not
\* call InsertIntoBlockchain or Rollback and sends nothing.
C8_EmptyGeneration ==
    (Returned /\ GenBlock /\ calls.afterPlay = 1 /\ err = "nil" /\ TxFullData = <<>>) =>
        /\ calls.commit = 1
        /\ dbState = "committed" \/ (dbState = "failed" /\ faults > 0)
        /\ result = "ErrEmptyBlock"
        /\ calls.insert = 0
        /\ calls.rollback = 0
        /\ sent = <<>>

\* the block without transactions, and one whose transactions all failed
C8_Witness ==
    /\ Returned /\ GenBlock /\ result = "ErrEmptyBlock" /\ dbState = "committed"
    /\ Len(Transactions) = 0 \/ \E t \in TxIds : played[t] = "fail"

\* C9, limit stop in generation: when Play of t_k, k > 1, returns
\* ErrLimitStop after t_1 .. t_(k-1) succeeded, t_k leaves no write, no
\* transaction after t_k is played, TxFullData is [t_1 .. t_(k-1)] and
\* PlaySafe commits.  Stated for the blocks without stop-network transactions.
C9_LimitStop ==
    \A k \in 2..Len(Transactions) :
        (/\ Returned
         /\ GenBlock
         /\ \A t \in TxIds : KindOf(t) # "StopNetwork"
         /\ played[k] = "limit"
         /\ \A i \in 1..(k - 1) : played[i] \in OkOutcomes)
        => /\ k \notin visible
           /\ \A j \in (k + 1)..Len(Transactions) : played[j] = "none"
           /\ TxFullData = [i \in 1..(k - 1) |-> i]
           /\ dbState = "committed"

\* Play of a stop-network transaction reported ErrNetworkStopping
NetworkStopping == \E t \in TxIds : played[t] = "netStop"

\* the transactions of the phases after the stop-network phase
LaterPhase == {t \in TxIds : PhaseOf(KindOf(t)) > PhaseOf("StopNetwork")}

\* what C10 holds of a play but for the error returned
StopNetworkAborts ==
    /\ paused
    /\ \A t \in LaterPhase : played[t] = "none"
    /\ dbState = "rolledback"
    /\ calls.commit = 0

\* C10 as the specification states it: when Play of a stop-network
\* transaction reports ErrNetworkStopping, PauseNodeActivity is called, no
\* transaction of a later phase is played, the outer transaction is rolled
\* back and never committed, and PlaySafe returns ErrNetworkStopping.
C10_StopNetworkAsStated ==
    (Returned /\ NetworkStopping) =>
        /\ StopNetworkAborts
        /\ result = "ErrNetworkStopping"

\* C10, StopNetwork: as above, but PlaySafe returns ErrNetworkStopping only if
\* nothing else fails: when AfterPlayTxs fails too it returns the error that
\* joins both, and when in generation MarkTransactionBad fails in the loop of
\* PlaySafe it returns that failure.
C10_StopNetwork ==
    (Returned /\ NetworkStopping) =>
        /\ StopNetworkAborts
        /\ err \in {"ErrNetworkStopping", Compose("ErrNetworkStopping", "AfterPlayTxs error")}
        /\ result = err \/ (GenBlock /\ TxFullData = <<>> /\ result = "db error")
        /\ faults = 0 => result = "ErrNetworkStopping"

\* a stop-network transaction stopped a block that holds a later transaction
C10_Witness ==
    /\ Returned
    /\ NetworkStopping
    /\ LaterPhase # {}
    /\ result = "ErrNetworkStopping"

\* generation ended with an error of ProcessTxs and nothing accepted, and no
\* collaborator failed
FailedEmptyGeneration ==
    /\ Returned
    /\ GenBlock
    /\ calls.afterPlay = 1
    /\ err # "nil"
    /\ TxFullData = <<>>
    /\ faults = 0

\* C11, mark-bad coverage: when generation fails with nothing accepted, every
\* transaction of the input list, the smart contracts included, has been
\* marked bad exactly once when PlaySafe returns.
C11_MarkBadCoverage ==
    FailedEmptyGeneration =>
        /\ dbState = "rolledback"
        /\ \A t \in TxIds : markedBad[t] = 1

\* C12, ban at most once: when a generation play ends with nothing accepted,
\* BadTxForBan has been called at most once for any sender, the calls of
\* serialExecuteTxs and those of PlaySafe's loop counted together.
C12_BanAtMostOnce ==
    (Returned /\ GenBlock /\ calls.afterPlay = 1 /\ TxFullData = <<>>) =>
        \A a \in Keys : banned[a] <= 1

\* the phase whose calls of serialExecuteTxs are open while the main thread
\* is at p, 0 when none may be
OpenPhase(p) ==
    CASE p = "StopNetwork" -> 1
      [] p = "FirstBlock" -> 2
      [] p = "Delay" -> 3
      [] p = "TransferSelfWait" -> 4
      [] p = "UtxoWait" -> 5
      [] OTHER -> 0

\* every call of serialExecuteTxs that exists belongs to the phase the main
\* thread is in; outside the phases, and so when ProcessTxs returns, none exists
TasksOfOnePhase ==
    \A g \in DOMAIN tasks :
        \A i \in 1..Len(tasks[g].txs) : PhaseOf(KindOf(tasks[g].txs[i])) = OpenPhase(pc)

\* a step that plays u finds every transaction of a later phase unplayed
PlayedInPhaseOrder ==
    \A u \in TxIds :
        (played[u] = "none" /\ played'[u] # "none") =>
            \A t \in TxIds :
                PhaseOf(KindOf(t)) > PhaseOf(KindOf(u)) => played[t] = "none"

\* C13, strict phase order with join: the transactions of a phase are played
\* before any transaction of a later phase (stop-network, first block, delay,
\* transfer-self, then UTXO and smart contracts), the group calls of a phase
\* are over before the next phase starts, and those of the last phase before
\* ProcessTxs returns.
C13_PhaseOrder == []TasksOfOnePhase /\ [][PlayedInPhaseOrder]_vars

\* a transfer-self transaction and a later UTXO or smart-contract one, both played
C13_Witness ==
    \E u, t \in TxIds :
        /\ KindOf(u) = "TransferSelf" /\ PhaseOf(KindOf(t)) > PhaseOf(KindOf(u))
        /\ played[u] # "none" /\ played[t] # "none"

\* the step that calls AfterPlayTxs: ProcessTxs is at its end, no call of
\* serialExecuteTxs is open, and a failure of AfterPlayTxs becomes the error
\* of ProcessTxs, joined to the earlier error if there is one
AfterPlayStep ==
    calls'.afterPlay # calls.afterPlay =>
        /\ calls.afterPlay = 0 /\ calls'.afterPlay = 1
        /\ pc = "defer"
        /\ tasks = EmptyMap
        /\ lock = "free"
        /\ faults' # faults =>
              err' = IF DeferredErr = "nil" THEN "AfterPlayTxs error"
                     ELSE Compose(DeferredErr, "AfterPlayTxs error")

\* after AfterPlayTxs no transaction is played and the error of ProcessTxs stays
AfterPlayIsLast == calls.afterPlay = 1 => (played' = played /\ err' = err)

FreshGroups == [map |-> EmptyMap, list |-> <<>>, serial |-> 1]

\* grouping list again gives the one group "1" with that list
OneGroup(r, list) == DOMAIN r.map = {Itoa(1)} /\ r.map[Itoa(1)] = list

\* C15, grouping is idempotent: when a grouper has returned, running it again
\* from the reset state on the list of any group it produced yields exactly
\* one group, with that list in the same order.
C15_GroupingIdempotent ==
    pc = "grouped" =>
        /\ \A g \in DOMAIN utxoTxsGroupMap :
              OneGroup(groupUtxoTxs(utxoTxsGroupMap[g], EmptyMap, FreshGroups),
                       utxoTxsGroupMap[g])
        /\ \A g \in DOMAIN transferSelfTxsGroupMap :
              OneGroup(groupTransferSelfTxs(transferSelfTxsGroupMap[g], EmptyMap, FreshGroups),
                       transferSelfTxsGroupMap[g])

\* a grouper produced two groups, one of them of several transactions
C15_Witness ==
    /\ pc = "grouped"
    /\ \E m \in {utxoTxsGroupMap, transferSelfTxsGroupMap} :
          /\ Cardinality(DOMAIN m) >= 2
          /\ \E g \in DOMAIN m : Len(m[g]) >= 2

\* the accounts the grouper of t's kind groups it by
GroupingAccounts(t) ==
    IF KindOf(t) = "Utxo" THEN UtxoAccounts(t) ELSE TransferSelfAccounts(t)

RECURSIVE LinkedTo(_)
\* the transactions linked to those of S by a chain of shared accounts
LinkedTo(S) ==
    LET more == S \cup {u \in TxIds :
                           \E t \in S : GroupingAccounts(t) \cap GroupingAccounts(u) # {}}
    IN IF more = S THEN S ELSE LinkedTo(more)

\* the group map of the grouper that was called
GroupMap ==
    IF \E t \in TxIds : KindOf(t) = "TransferSelf"
    THEN transferSelfTxsGroupMap
    ELSE utxoTxsGroupMap

\* the places of t in the group map
PlacesOf(t) == {<<g, i>> \in (DOMAIN GroupMap) \X (1..Len(Transactions)) :
                    i <= Len(GroupMap[g]) /\ GroupMap[g][i] = t}

\* C16, connected components: when a grouper has returned, every transaction
\* of the input is at exactly one place of the group map, and two transactions
\* are in the same group if and only if a chain of transactions in which
\* neighbours share an account links them.
C16_ConnectedComponents ==
    pc = "grouped" =>
        /\ \A t \in TxIds : Cardinality(PlacesOf(t)) = 1
        /\ \A t, u \in TxIds :
              (\E g \in DOMAIN GroupMap : {t, u} \subseteq Range(GroupMap[g]))
                  <=> u \in LinkedTo({t})

\* a step in which Play of t fails with an error other than ErrNetworkStopping
\* and the rollback to the savepoint succeeds
PlayFails(t) ==
    /\ played[t] = "none"
    /\ played'[t] \in FailOutcomes \cup {"sysparErr"}

\* C17, per-transaction isolation: a step of the executor in which Play fails
\* (not with ErrNetworkStopping) and the savepoint is rolled back leaves the
\* writes of the outer transaction, OutputsMap, afters (Txs, Rts,
\* TxBinLogSql), processedTx and the block's notifications as they were
\* before the transaction started.
C17_Isolation ==
    [][\A t \in TxIds :
          PlayFails(t) =>
              /\ dbWrites' = dbWrites
              /\ visible' = visible
              /\ OutputsMap' = OutputsMap
              /\ afters' = afters
              /\ processedTx' = processedTx
              /\ Notifications' = Notifications]_vars

\* a transaction failed after another had been accepted, whose effects stay
C17_Witness ==
    /\ pc # "done"
    /\ \E t, u \in TxIds :
          /\ played[u] = "okNotify" /\ played[t] \in FailOutcomes
          /\ dbWrites = {u}
          /\ processedTx = <<u>>
          /\ OutputsMap = <<u>>
          /\ Notifications = <<u>>

\* the invocations of serialExecuteTxs between their first savepoint and
\* their return
Running == {g \in DOMAIN tasks : tasks[g].st = "running"}

\* the names an invocation can have: the main thread's, or its group's
GroupKeys == {"main"} \cup {Itoa(n) : n \in 0..MaxLikeTxs}

\* at most one invocation runs, and it is the one that holds the lock
OneRunning ==
    /\ DOMAIN tasks \subseteq GroupKeys
    /\ Cardinality(Running) <= 1
    /\ \A g \in DOMAIN tasks : tasks[g].st = "running" <=> lock = g
    /\ Running = {} => lock = "free"

\* the lock is taken when free, kept for the whole group and given back at
\* the return, whatever is returned
HeldForGroup ==
    \A g \in GroupKeys :
        /\ (lock' = g /\ lock # g) =>
              lock = "free" /\ tasks[g].st = "waiting" /\ tasks'[g].cur = 1
        /\ (lock = g /\ lock' # g) =>
              lock' = "free" /\ tasks'[g].st = "done"
        /\ (lock = g /\ lock' = g) => tasks'[g].st = "running"

\* while invocations exist a transaction is played, and the database and the
\* block's lists written, only by the invocation that holds the lock, at its
\* current transaction
NoInterleaving ==
    (/\ DOMAIN tasks # {}
     /\ \/ played' # played \/ dbWrites' # dbWrites \/ afters' # afters
        \/ processedTx' # processedTx \/ OutputsMap' # OutputsMap) =>
        /\ lock \in DOMAIN tasks
        /\ \A t \in TxIds :
              played'[t] # played[t] => t = tasks[lock].txs[tasks[lock].cur]
        /\ \A g \in DOMAIN tasks : g # lock => tasks'[g] = tasks[g]

\* the play under the scheduling of goroutines: a step that can be taken is
\* taken, and sync.RWMutex hands the lock to a waiting goroutine
SpecFair == Init /\ [][Next]_vars /\ WF_vars(Next)

\* C18, group-level mutual exclusion: at most one invocation of
\* serialExecuteTxs is between its first savepoint and its return; it holds
\* the lock for its whole group and releases it on every return path, so the
\* transactions of two groups never interleave; and every invocation that
\* waits for the lock gets it and returns.
C18_MutualExclusion ==
    /\ []OneRunning
    /\ [][HeldForGroup /\ NoInterleaving]_vars
    /\ \A g \in GroupKeys :
          (g \in DOMAIN tasks /\ tasks[g].st = "waiting")
              ~> (g \in DOMAIN tasks /\ tasks[g].st = "done")

\* one group has returned with an error and the next one holds the lock
C18_Witness ==
    \E g, h \in DOMAIN tasks :
        /\ tasks[g].st = "done" /\ tasks[g].ret # "nil"
        /\ tasks[h].st = "running" /\ lock = h

\* C19, OutputsMap consistency: between transactions OutputsMap is the seed
\* with the inputs and outputs applied of exactly the transactions of
\* processedTx, in that order, and these are the transactions whose Play
\* succeeded: nothing of a failed or an unplayed transaction is in it.
C19_OutputsMapConsistency ==
    /\ OutputsMap = processedTx
    /\ \A t \in TxIds :
          played[t] \in OkOutcomes <=> \E i \in 1..Len(OutputsMap) : OutputsMap[i] = t

\* generation went on after a failed transaction and accepted a later one,
\* and a transaction is still to be played
C19_Witness ==
    \E t, u, v \in TxIds :
        /\ played[t] \in FailOutcomes
        /\ played[u] \in OkOutcomes
        /\ played[v] = "none"
        /\ t < u
        /\ OutputsMap = <<u>>

\* generation went on after the failed Play of the transaction t
ContinuedAfter(t) ==
    /\ GenBlock
    /\ played[t] \in FailOutcomes \ {"limit"}
    /\ markedBad[t] >= 1

\* C20, generation error recording: in generation, when a transaction fails
\* with a non-fatal error and the executor continues, the error is the
\* block's generation error: the deferred function of ProcessTxs sees a
\* non-nil genBErr and ProcessTxs returns a non-nil error.
C20_GenerationErrorRecorded ==
    \A t \in TxIds :
        ContinuedAfter(t) =>
            /\ genBErr # "nil"
            /\ calls.afterPlay = 1 => err # "nil"

=============================================================================
